---- MODULE Spec2Model ----
(***************************************************************************)
(* State-machine model of the zoomsaic mosaic engine (class                *)
(* MosaicGenerator): tile indexing with the tiles.csv cache, nearest-color *)
(* matching, per-cell compositing with corrupted-tile fallback, the zoom   *)
(* sequence controller with its frame names and crop geometry, one         *)
(* getAverageColor call with its retries, and makeVideo's file listing.    *)
(*                                                                         *)
(* Strings are sequences of one-character strings, so that the CSV         *)
(* formatting and parsing are computed character by character.             *)
(***************************************************************************)
EXTENDS Integers, Sequences, FiniteSets, TLC

\* ------------------------------------------------------------------ bounds
MaxCols == 2
MaxRows == 2
MaxCells == 2
MaxIterationCells == 4
MaxZoomSteps == 1
MaxIterations == 2
MaxFrames == 4
MaxCsvTiles == 2
MaxGeomSteps == 2
MaxDecodes == 4
MaxCandidates == 3
MaxCsvLines == 3
MaxPixelCols == 2
MaxPixelRows == 2
MaxPixelTile == 2

\* ------------------------------------------------------- values and strings
\* parseInt of a string that starts with no digit.
NaN == -1
\* maxIterations = null.
Unset == -1

Digits == <<"0", "1", "2", "3", "4", "5", "6", "7", "8", "9">>
Whitespace == {" ", "\n"}

SeqToSet(s) == {s[i] : i \in 1..Len(s)}

IsDigit(c) == \E i \in 1..10 : Digits[i] = c

DigitValue(c) == (CHOOSE i \in 1..10 : Digits[i] = c) - 1

\* A number inside a template literal: decimal digits, or "NaN".
RECURSIVE NumToString(_)
NumToString(n) ==
    IF n = NaN THEN <<"N", "a", "N">>
    ELSE IF n < 10 THEN <<Digits[n + 1]>>
    ELSE NumToString(n \div 10) \o <<Digits[(n % 10) + 1]>>

\* The one element of a singleton set: The({e(v) : v \in {d}}) is e with v
\* bound to the value of d.
The(S) == CHOOSE v \in S : TRUE

\* String.prototype.trim: what lies between the first and the last character
\* that is not whitespace.
Trim(str) ==
    The({IF solid = {} THEN <<>>
         ELSE SubSeq(str, CHOOSE i \in solid : \A j \in solid : i <= j,
                          CHOOSE i \in solid : \A j \in solid : j <= i) :
         solid \in {{i \in 1..Len(str) : str[i] \notin Whitespace}}})

\* String.prototype.split(sep) for a one-character separator: one piece more
\* than there are separators, the k-th between the (k-1)-th and the k-th.
SepPos(seps, k) ==
    CHOOSE p \in seps : Cardinality({q \in seps : q < p}) = k - 1

Split(s, sep) ==
    The({[k \in 1..(Cardinality(seps) + 1) |->
             SubSeq(s, IF k = 1 THEN 1 ELSE SepPos(seps, k - 1) + 1,
                       IF k = Cardinality(seps) + 1 THEN Len(s)
                       ELSE SepPos(seps, k) - 1)] :
         seps \in {{i \in 1..Len(s) : s[i] = sep}}})

\* Array.prototype.join(sep).
RECURSIVE JoinFrom(_, _, _)
JoinFrom(parts, i, sep) ==
    IF i = Len(parts) THEN parts[i]
    ELSE parts[i] \o <<sep>> \o JoinFrom(parts, i + 1, sep)

Join(parts, sep) == IF parts = <<>> THEN <<>> ELSE JoinFrom(parts, 1, sep)

\* The number of characters of the longest prefix of decimal digits.
DigitPrefix(s) ==
    Cardinality({n \in 1..Len(s) : \A i \in 1..n : IsDigit(s[i])})

\* The value of the first n characters of s, all decimal digits.
RECURSIVE DigitsValue(_, _)
DigitsValue(s, n) ==
    IF n = 0 THEN 0 ELSE DigitsValue(s, n - 1) * 10 + DigitValue(s[n])

\* parseInt on a trimmed string: the value of the longest prefix of decimal
\* digits, NaN when there is none (trailing characters are ignored).
ParseInt(str) ==
    The({IF DigitPrefix(s) = 0 THEN NaN ELSE DigitsValue(s, DigitPrefix(s)) :
         s \in {str}})

\* ---------------------------------------------------------------- tiles.csv
CsvHeader == <<"p", "a", "t", "h", ",", "r", ",", "g", ",", "b">>

TileRecord(p, r, g, b) == [path |-> p, r |-> r, g |-> g, b |-> b]

\* One line of saveTileCacheToCSV: `${tile.path},${tile.r},${tile.g},${tile.b}`
CsvLine(tile) ==
    tile.path \o <<",">> \o NumToString(tile.r) \o <<",">> \o NumToString(tile.g)
        \o <<",">> \o NumToString(tile.b)

\* The text saveTileCacheToCSV writes: header and one line per tile, joined
\* by newlines.
CsvText(tiles) ==
    The({Join(csvLines, "\n") :
         csvLines \in {<<CsvHeader>>
                          \o [i \in 1..Len(tiles) |-> CsvLine(tiles[i])]}})

\* A field counts as soon as the line has it, empty or not.
AcceptsEmptyField(fields, i) == i <= Len(fields)

\* A destructured field is truthy when it is present and not empty.
Truthy(fields, i) == i <= Len(fields) /\ fields[i] # <<>>

\* The body of the loop of loadTileCacheFromCSV for one line.
ParseFields(fields) ==
    IF Truthy(fields, 1) /\ Truthy(fields, 2) /\ Truthy(fields, 3)
       /\ Truthy(fields, 4)
    THEN <<TileRecord(Trim(fields[1]), ParseInt(Trim(fields[2])),
                      ParseInt(Trim(fields[3])), ParseInt(Trim(fields[4])))>>
    ELSE <<>>

ParseLine(line) == The({ParseFields(fields) : fields \in {Split(line, ",")}})

RECURSIVE ParseLines(_, _)
ParseLines(lines, i) ==
    IF i > Len(lines) THEN <<>>
    ELSE ParseLine(lines[i]) \o ParseLines(lines, i + 1)

\* A file of the file system: absent, or present with its text.
NoFile == [exists |-> FALSE, text |-> <<>>]
File(text) == [exists |-> TRUE, text |-> text]

\* loadTileCacheFromCSV: null when readFile throws (no such file), otherwise
\* the records of the lines after the first of the trimmed text.
loadTileCacheFromCSV(file) ==
    IF ~file.exists THEN [null |-> TRUE, tiles |-> <<>>]
    ELSE The({[null |-> FALSE,
               tiles |-> The({ParseLines(lines, 2) :
                              lines \in {Split(csvData, "\n")}})] :
              csvData \in {Trim(file.text)}})

\* saveTileCacheToCSV: the file after fs.writeFile of the text.
saveTileCacheToCSV(tiles) == File(CsvText(tiles))

\* ------------------------------------------------------------ color matcher
\* colorDistanceSq: NaN channels (from a cache line without digits) give NaN.
colorDistanceSq(color1, color2) ==
    IF NaN \in {color1.r, color1.g, color1.b, color2.r, color2.g, color2.b}
    THEN NaN
    ELSE LET dr == color1.r - color2.r
             dg == color1.g - color2.g
             db == color1.b - color2.b
         IN  dr * dr + dg * dg + db * db

\* A scan that lets a later candidate at the same distance win.
LessOrEqual(distance, bestDistance) ==
    distance # NaN /\ bestDistance # NaN /\ distance <= bestDistance

\* distance < bestDistance; a comparison with NaN is false.
Less(distance, bestDistance) ==
    distance # NaN /\ bestDistance # NaN /\ distance < bestDistance

\* A filter that lets the corrupted tiles through.
KeepsCorrupted(cands, tiles, corrupted) == cands

\* tiles.filter((tile) => !corrupted.has(tile.path)), on a candidate list.
\* A candidate is the index of a tile object in the corpus `tiles`.
FilterCorrupted(cands, tiles, corrupted) ==
    SelectSeq(cands, LAMBDA i : tiles[i].path \notin corrupted)

\* The scan loop of findBestTile from position i, with the best so far.
RECURSIVE BestFrom(_, _, _, _, _)
BestFrom(targetColor, validTiles, tiles, i, bestTile) ==
    IF i > Len(validTiles) THEN bestTile
    ELSE LET distance == colorDistanceSq(targetColor, tiles[validTiles[i]])
             bestDistance == colorDistanceSq(targetColor, tiles[bestTile])
         IN  BestFrom(targetColor, validTiles, tiles, i + 1,
                      IF Less(distance, bestDistance) THEN validTiles[i]
                      ELSE bestTile)

\* findBestTile(targetColor, tiles): the index of the chosen tile object, or
\* 0 when it throws 'No valid tiles available - all tiles are corrupted'.
findBestTile(targetColor, cands, tiles, corrupted) ==
    LET validTiles == FilterCorrupted(cands, tiles, corrupted)
    IN  IF Len(validTiles) = 0 THEN 0
        ELSE BestFrom(targetColor, validTiles, tiles, 2, validTiles[1])

\* Candidates that forget which tiles were used.
AvailableIgnoringUsed(tiles, usedTiles, allowReuse) ==
    [i \in 1..Len(tiles) |-> i]

\* The candidates of one cell in the assignment loop of generateMosaic.
AvailableTiles(tiles, usedTiles, allowReuse) ==
    LET all == [i \in 1..Len(tiles) |-> i]
        unused == SelectSeq(all, LAMBDA i : i \notin usedTiles)
    IN  IF allowReuse THEN all
        ELSE IF Len(unused) = 0 THEN all
        ELSE unused

\* The assignment loop of generateMosaic over the cells in row-major order
\* (cell = y * width + x): the chosen tile index per cell, and whether
\* findBestTile threw.
RECURSIVE AssignCells(_, _, _, _, _, _, _)
AssignCells(cell, inputData, tiles, corrupted, allowReuse, usedTiles, picks) ==
    IF cell > Len(inputData) THEN [threw |-> FALSE, picks |-> picks]
    ELSE The({IF bestTile = 0 THEN [threw |-> TRUE, picks |-> picks]
              ELSE AssignCells(cell + 1, inputData, tiles, corrupted,
                               allowReuse,
                               IF allowReuse THEN usedTiles
                               ELSE usedTiles \cup {bestTile},
                               Append(picks, bestTile)) :
              bestTile \in {findBestTile(inputData[cell],
                                AvailableTiles(tiles, usedTiles, allowReuse),
                                tiles, corrupted)}})

\* --------------------------------------------------------------- tile index
\* The hard-coded path of knownCorruptedFiles, abbreviated to one character.
KnownCorruptedFiles == {<<"k">>}

\* The tile files of the model and the raw RGB bytes sharp yields for each
\* after resize(tileSize, tileSize) (two pixels stand for the tile).
TilePaths == {<<"a">>, <<"b">>, <<"k">>}

TileData(imagePath) ==
    IF imagePath = <<"a">> THEN <<0, 0, 0, 20, 20, 20>>
    ELSE IF imagePath = <<"b">> THEN <<100, 100, 100, 101, 101, 101>>
    ELSE <<255, 255, 255, 255, 255, 255>>

\* Math.round of a non-negative quotient num / den.
RoundDiv(num, den) == (2 * num + den) \div (2 * den)

RECURSIVE SumChannel(_, _)
SumChannel(data, i) ==
    IF i > Len(data) THEN 0 ELSE data[i] + SumChannel(data, i + 3)

\* The average color object getAverageColor builds from the raw bytes.
AverageColor(imagePath) ==
    LET data == TileData(imagePath)
        pixelCount == Len(data) \div 3
    IN  TileRecord(imagePath,
                   RoundDiv(SumChannel(data, 1), pixelCount),
                   RoundDiv(SumChannel(data, 2), pixelCount),
                   RoundDiv(SumChannel(data, 3), pixelCount))

\* Map.prototype.set on a map held as a function.
MapSet(map, key, value) ==
    [k \in (DOMAIN map) \cup {key} |-> IF k = key THEN value ELSE map[k]]

\* sharp(path).resize(..).raw().toBuffer() resolves iff the file is readable.
Decodes(imagePath, brokenFiles) == imagePath \notin brokenFiles

\* The failed path is not remembered.
ForgetsCorrupted(corrupted, imagePath) == corrupted

\* this.corruptedTiles.add(imagePath) in the catch of getAverageColor
MarkCorrupted(corrupted, imagePath) == corrupted \cup {imagePath}

\* getAverageColor(imagePath) on a generator state gen = [tileCache,
\* corruptedTiles]: the result (<<>> for null), the generator state after,
\* and the paths it tried to decode.  The retries of a truncated read decode
\* the same file again: a file that does not decode fails every attempt.
getAverageColor(imagePath, gen, brokenFiles) ==
    IF imagePath \in gen.corruptedTiles
    THEN [result |-> <<>>, gen |-> gen, decoded |-> <<>>]
    ELSE IF imagePath \in DOMAIN gen.tileCache
    THEN [result |-> <<gen.tileCache[imagePath]>>, gen |-> gen, decoded |-> <<>>]
    ELSE IF Decodes(imagePath, brokenFiles)
    THEN [result |-> <<AverageColor(imagePath)>>,
          gen |-> [gen EXCEPT !.tileCache =
                      MapSet(@, imagePath, AverageColor(imagePath))],
          decoded |-> <<imagePath>>]
    ELSE [result |-> <<>>,
          gen |-> [gen EXCEPT !.corruptedTiles = MarkCorrupted(@, imagePath)],
          decoded |-> <<imagePath>>]

\* for (const tileFile of files) { tileData = await getAverageColor(tileFile);
\* if (tileData) tiles.push(tileData) }
RECURSIVE ProcessTiles(_, _, _, _, _, _)
ProcessTiles(files, i, gen, tiles, decoded, brokenFiles) ==
    IF i > Len(files) THEN [gen |-> gen, tiles |-> tiles, decoded |-> decoded]
    ELSE The({ProcessTiles(files, i + 1, got.gen, tiles \o got.result,
                           decoded \o got.decoded, brokenFiles) :
              got \in {getAverageColor(files[i], gen, brokenFiles)}})

\* this.tileCache.set(tileData.path, tileData) for every loaded record.
RECURSIVE CacheAll(_, _, _)
CacheAll(map, tiles, i) ==
    IF i > Len(tiles) THEN map
    ELSE CacheAll(MapSet(map, tiles[i].path, tiles[i]), tiles, i + 1)

\* tileFiles.filter((file) => !cachedPaths.has(file))
NewTileFiles(tileFiles, tiles) ==
    SelectSeq(tileFiles,
              LAMBDA f : f \notin {tiles[i].path : i \in 1..Len(tiles)})

\* The save of the reconcile branch without its guard.
SavesAlways(newTileFiles) == TRUE

\* if (newTileFiles.length > 0) { ...; saveTileCacheToCSV }
SavesAfterReconcile(newTileFiles) == Len(newTileFiles) > 0

\* The file list of generateMosaic when the cache was loaded: the cached
\* paths (the directory scan is commented out).
TileFilesWithCache(tiles, dir) ==
    [scanned |-> FALSE, files |-> [i \in 1..Len(tiles) |-> tiles[i].path]]

\* generateMosaic after a cache was loaded: blacklist the known bad files,
\* list the tile files, compute the colors of the new ones and save the cache
\* if there were any.
IndexWithCache(loadedTiles, gen, file, dir, brokenFiles) ==
    LET gen1 == [tileCache |-> CacheAll(gen.tileCache, loadedTiles, 1),
                 corruptedTiles |-> gen.corruptedTiles \cup KnownCorruptedFiles]
        listed == TileFilesWithCache(loadedTiles, dir)
        newTileFiles == NewTileFiles(listed.files, loadedTiles)
        saves == SavesAfterReconcile(newTileFiles)
    IN  The({[cacheHit |-> TRUE, loaded |-> loadedTiles,
              scanned |-> listed.scanned, newTileFiles |-> newTileFiles,
              gen |-> done.gen, tiles |-> done.tiles,
              decoded |-> done.decoded, wrote |-> saves,
              file |-> IF saves THEN saveTileCacheToCSV(done.tiles) ELSE file,
              threw |-> Len(done.tiles) = 0] :
             done \in {ProcessTiles(newTileFiles, 1, gen1, loadedTiles, <<>>,
                                    brokenFiles)}})

\* generateMosaic when no cache was loaded: scan the directory, compute the
\* color of every file and save the cache.
IndexWithoutCache(gen, file, dir, brokenFiles) ==
    IF Len(dir) = 0
    THEN [cacheHit |-> FALSE, loaded |-> <<>>, scanned |-> TRUE,
          newTileFiles |-> <<>>, gen |-> gen, tiles |-> <<>>,
          decoded |-> <<>>, wrote |-> FALSE, file |-> file, threw |-> TRUE]
    ELSE The({[cacheHit |-> FALSE, loaded |-> <<>>, scanned |-> TRUE,
               newTileFiles |-> <<>>, gen |-> done.gen, tiles |-> done.tiles,
               decoded |-> done.decoded, wrote |-> TRUE,
               file |-> saveTileCacheToCSV(done.tiles),
               threw |-> Len(done.tiles) = 0] :
              done \in {ProcessTiles(dir, 1, gen, <<>>, <<>>, brokenFiles)}})

\* The first part of generateMosaic (load the cache, list the tile files,
\* compute the missing colors, save the cache, check the corpus): the corpus,
\* the generator state, the cache file and what happened.
IndexTiles(gen, file, dir, brokenFiles) ==
    The({IF ~load.null
         THEN IndexWithCache(load.tiles, gen, file, dir, brokenFiles)
         ELSE IndexWithoutCache(gen, file, dir, brokenFiles) :
         load \in {loadTileCacheFromCSV(file)}})

\* ------------------------------------------------ frame names and geometry
defaultTileSize == 6

\* The target length of globalFrameNumber.toString().padStart(4, '0').
PadLength == 4

\* String.prototype.padStart with a one-character pad string: the string
\* itself when it is long enough already.
RECURSIVE PadStart(_, _, _)
PadStart(str, targetLength, padString) ==
    IF Len(str) >= targetLength THEN str
    ELSE PadStart(<<padString>> \o str, targetLength, padString)

\* The input image and the output path (path.parse: base "o", extension ".png").
InputImagePath == <<"i", ".", "j", "p", "g">>
BaseOutputPath == <<"o">>
Extension == <<".", "p", "n", "g">>

\* `${baseOutputPath}_${paddedFrameNumber}${extension}`
OutputName(frame) ==
    BaseOutputPath \o <<"_">> \o PadStart(NumToString(frame), PadLength, "0")
        \o Extension

\* A counter that moves by two: a frame number is skipped.
SkipsFrame(frame) == frame + 2

\* globalFrameNumber++
NextFrame(frame) == frame + 1

RECURSIVE Pow(_, _)
Pow(base, exponent) ==
    IF exponent = 0 THEN 1 ELSE base * Pow(base, exponent - 1)

\* The tile size of a zoom step grown from the size of the step before.
RECURSIVE ZoomTileSizeCompounded(_, _, _)
ZoomTileSizeCompounded(baseTileSize, zoomFactor, step) ==
    IF step = 0 THEN baseTileSize
    ELSE RoundDiv(ZoomTileSizeCompounded(baseTileSize, zoomFactor, step - 1)
                        * zoomFactor.den, zoomFactor.num)

\* Math.round(baseTileSize * Math.pow(1 / zoomFactor, zoomStep)) for the
\* zoomFactor num / den.
ZoomTileSize(baseTileSize, zoomFactor, step) ==
    RoundDiv(baseTileSize * Pow(zoomFactor.den, step),
               Pow(zoomFactor.num, step))

Max(a, b) == IF a >= b THEN a ELSE b
Min(a, b) == IF a <= b THEN a ELSE b

\* An offset taken from the raster alone: half of its size.
CropOffsetOfFull(full, target) == Max(0, RoundDiv(full, 2))

\* Math.max(0, Math.round((full - target) / 2)); the quotient of a negative
\* difference rounds to the nearest integer too, halves upward.
CropOffset(full, target) == Max(0, RoundDiv(full - target, 2))

\* Math.min(target, full)
CropSize(target, full) == Min(target, full)

\* The oversized raster written as it is, without the crop.
WholeRaster(fullWidth, fullHeight, targetWidth, targetHeight) ==
    [cropped |-> FALSE, left |-> 0, top |-> 0,
     width |-> fullWidth, height |-> fullHeight,
     fullWidth |-> fullWidth, fullHeight |-> fullHeight]

\* The end of generateZoomedMosaicFromPattern: the rectangle extracted from
\* the fullWidth x fullHeight raster, or the whole raster when neither side
\* is larger than the target.
CropRect(fullWidth, fullHeight, targetWidth, targetHeight) ==
    IF fullWidth > targetWidth \/ fullHeight > targetHeight
    THEN [cropped |-> TRUE,
          left |-> CropOffset(fullWidth, targetWidth),
          top |-> CropOffset(fullHeight, targetHeight),
          width |-> CropSize(targetWidth, fullWidth),
          height |-> CropSize(targetHeight, fullHeight),
          fullWidth |-> fullWidth, fullHeight |-> fullHeight]
    ELSE WholeRaster(fullWidth, fullHeight, targetWidth, targetHeight)

\* sharp's extract rejects a rectangle that leaves the image.
ExtractFails(crop) ==
    /\ crop.cropped
    /\ \/ crop.left + crop.width > crop.fullWidth
       \/ crop.top + crop.height > crop.fullHeight
       \/ crop.width <= 0
       \/ crop.height <= 0

\* ------------------------------------------------------------------- state
VARIABLES
    dirFiles,          \* getImageFiles(tilesDirectory): the tile files, in order
    cacheFile,         \* tilesDirectory/tiles.csv
    cacheWritable,     \* whether tiles.csv can be written
    broken,            \* the tile paths whose decode fails (no file, bad file)
    options,           \* allowReuse, zoomSteps, maxIterations, mosaicWidth/Height
    tileCache,         \* this.tileCache
    corruptedTiles,    \* this.corruptedTiles
    lastTilePattern,   \* this.lastTilePattern
    pc,                \* where generateInfiniteZoomMosaic stands
    globalFrameNumber,
    zoomStep,
    currentInputPath,  \* the source image of the iteration
    mosaicResult,      \* the tilePattern, mosaicWidth, mosaicHeight returned
    tiles,             \* the corpus of the running generateMosaic
    inputData,         \* the target color of every cell
    tileImages,        \* the TileAssignment being composited
    x, y,              \* the cell the compositor is at
    rowBuffers,        \* per row, per cell: the tile whose pixels fill it
    written,           \* the frame files written, in the order of the writes
    loaded,            \* what the last loadTileCacheFromCSV returned
    failedColor,       \* the paths getAverageColor gave up on, so far
    decodeOutcomes,    \* what the decodes of one getAverageColor call will do
    retryCount,        \* processImage(retryCount)
    attempts,          \* the decodes that call made, and the wait before each
    returned,          \* what the call returned (<<>> for null)
    imageFiles,        \* makeVideo's getImageFiles(directory)
    ev                 \* what the last step did

vars == <<dirFiles, cacheFile, cacheWritable, broken, options, tileCache, corruptedTiles,
          lastTilePattern, pc, globalFrameNumber, zoomStep, currentInputPath,
          mosaicResult, tiles, inputData, tileImages, x, y, rowBuffers,
          written, loaded, failedColor, decodeOutcomes, retryCount, attempts,
          returned, imageFiles, ev>>

envVars == <<dirFiles, cacheWritable, options>>

\* The state of one getAverageColor call followed on its own, and of the
\* video assembler: the zoom sequence leaves them alone.
callVars == <<decodeOutcomes, retryCount, attempts, returned, imageFiles>>

\* The pixels of the solid gray fallback tile (Buffer.alloc(.., 128)).
GrayTile == <<"gray">>

Color(v) == [r |-> v, g |-> v, b |-> v]

\* The colors a pixel of the source image resized to the grid can have.
TargetColors == {Color(10), Color(200)}

NoEvent ==
    [op |-> "none", phase |-> "", path |-> <<>>, failed |-> FALSE,
     decoded |-> <<>>, filled |-> <<>>, threw |-> FALSE, cacheHit |-> FALSE,
     scanned |-> FALSE, newTileFiles |-> <<>>, wrote |-> FALSE,
     writeFailed |-> FALSE, cell |-> 0, crop |-> <<>>]

EmptyPattern == <<>>

\* mosaicResult before the first generateMosaicWithTilePattern returned.
NoResult ==
    [width |-> 0, height |-> 0, tilePattern |-> EmptyPattern,
     mosaicWidth |-> 0, mosaicHeight |-> 0]

DirAB == <<<<"a">>, <<"b">>>>
DirABK == <<<<"a">>, <<"b">>, <<"k">>>>

\* The tile directory and the tiles.csv a run can find: a directory with or
\* without images and no cache, an empty file or a header alone for a cache,
\* a cache saved before an image was added, a cache of the whole directory,
\* a cache of images that are gone, and a cache of the blacklisted file alone;
\* the cache file can be written, or not (a directory that is read-only).
EnvChoices ==
    {<<<<>>, NoFile, TRUE>>,
     <<DirAB, NoFile, TRUE>>,
     <<DirAB, NoFile, FALSE>>,
     <<DirABK, NoFile, TRUE>>,
     <<DirAB, File(<<>>), TRUE>>,
     <<DirAB, saveTileCacheToCSV(<<>>), TRUE>>,
     <<DirAB, saveTileCacheToCSV(<<AverageColor(<<"a">>)>>), TRUE>>,
     <<DirABK, saveTileCacheToCSV(<<AverageColor(<<"a">>), AverageColor(<<"b">>),
                                    AverageColor(<<"k">>)>>), TRUE>>,
     <<<<>>, saveTileCacheToCSV(<<AverageColor(<<"a">>)>>), TRUE>>,
     <<DirABK, saveTileCacheToCSV(<<AverageColor(<<"k">>)>>), TRUE>>}

\* zoomFactor = 0.9, as the ratio num / den.
DefaultZoomFactor == [num |-> 9, den |-> 10]

\* The options of a run: grids of at most MaxCells cells, and at most
\* MaxIterationCells cells rendered per iteration (base mosaic and zoom steps).
OptionChoices ==
    {o \in [allowReuse : BOOLEAN, zoomSteps : 0..MaxZoomSteps,
            maxIterations : {Unset} \cup (0..MaxIterations),
            mosaicWidth : 1..MaxCols, mosaicHeight : 1..MaxRows,
            tileSize : {defaultTileSize}, zoomFactor : {DefaultZoomFactor}] :
        /\ o.mosaicWidth * o.mosaicHeight <= MaxCells
        /\ o.mosaicWidth * o.mosaicHeight * (o.zoomSteps + 1)
               <= MaxIterationCells}

Init ==
    /\ \E e \in EnvChoices :
           dirFiles = e[1] /\ cacheFile = e[2] /\ cacheWritable = e[3]
    /\ broken = TilePaths \ SeqToSet(dirFiles)
    /\ options \in OptionChoices
    /\ tileCache = <<>>
    /\ corruptedTiles = {}
    /\ lastTilePattern = EmptyPattern
    /\ pc = "loop"
    /\ globalFrameNumber = 0
    /\ zoomStep = 0
    /\ currentInputPath = InputImagePath
    /\ mosaicResult = NoResult
    /\ tiles = <<>>
    /\ inputData = <<>>
    /\ tileImages = EmptyPattern
    /\ x = 0
    /\ y = 0
    /\ rowBuffers = <<>>
    /\ written = <<>>
    /\ loaded = <<>>
    /\ failedColor = {}
    /\ decodeOutcomes = <<>>
    /\ retryCount = 0
    /\ attempts = <<>>
    /\ returned = <<>>
    /\ imageFiles = <<>>
    /\ ev = NoEvent

\* ----------------------------------------------------------- the compositor
\* The try/catch around one cell of the base mosaic in generateMosaic: the
\* tile decodes, or it is marked corrupted and the nearest tile that is not
\* corrupted is decoded in its place (outside any try).
CompositeBase(tilePath, targetColor, corpus, corrupted, brokenFiles) ==
    IF Decodes(tilePath, brokenFiles)
    THEN [threw |-> FALSE, failed |-> FALSE, corruptedTiles |-> corrupted,
          filled |-> <<tilePath>>, decoded |-> <<tilePath>>]
    ELSE LET corrupted1 == corrupted \cup {tilePath}
             availableTiles ==
                 FilterCorrupted([i \in 1..Len(corpus) |-> i], corpus, corrupted1)
             replacementTile ==
                 findBestTile(targetColor, availableTiles, corpus, corrupted1)
         IN  IF Len(availableTiles) = 0 \/ replacementTile = 0
             THEN [threw |-> TRUE, failed |-> TRUE,
                   corruptedTiles |-> corrupted1, filled |-> <<>>,
                   decoded |-> <<tilePath>>]
             ELSE IF Decodes(corpus[replacementTile].path, brokenFiles)
             THEN [threw |-> FALSE, failed |-> TRUE,
                   corruptedTiles |-> corrupted1,
                   filled |-> <<corpus[replacementTile].path>>,
                   decoded |-> <<tilePath, corpus[replacementTile].path>>]
             ELSE [threw |-> TRUE, failed |-> TRUE,
                   corruptedTiles |-> corrupted1, filled |-> <<>>,
                   decoded |-> <<tilePath, corpus[replacementTile].path>>]

\* The try/catch around one cell of generateZoomedMosaicFromPattern: the tile
\* decodes, or the cell is a solid gray tile.
CompositeZoom(tilePath, targetColor, corpus, corrupted, brokenFiles) ==
    IF Decodes(tilePath, brokenFiles)
    THEN [threw |-> FALSE, failed |-> FALSE, corruptedTiles |-> corrupted,
          filled |-> <<tilePath>>, decoded |-> <<tilePath>>]
    ELSE [threw |-> FALSE, failed |-> TRUE, corruptedTiles |-> corrupted,
          filled |-> <<GrayTile>>, decoded |-> <<tilePath>>]

\* tileBuffers.push / rowBuffers.push: the cell joins the row being built.
PushCell(rows, col, content) ==
    IF col = 0 THEN Append(rows, <<content>>)
    ELSE [rows EXCEPT ![Len(rows)] = Append(@, content)]

\* The tile pattern of the picks of the assignment loop (row.push(bestTile.path)).
PatternOf(picks, corpus, width, height) ==
    [row \in 1..height |->
        [col \in 1..width |-> corpus[picks[(row - 1) * width + col]].path]]

\* ------------------------------------------------- the zoom sequence controller
\* The while condition with <= for <: one iteration too many.
WhileContinuesOffByOne(opts, frame) ==
    \/ opts.maxIterations = Unset
    \/ frame <= opts.maxIterations * (opts.zoomSteps + 1)

\* The while condition of generateInfiniteZoomMosaic:
\* maxIterations === null || globalFrameNumber / (zoomSteps + 1) < maxIterations
\* (the quotient compared exactly, by cross-multiplying).
WhileContinues(opts, frame) ==
    \/ opts.maxIterations = Unset
    \/ frame < opts.maxIterations * (opts.zoomSteps + 1)

\* The first assignment's pattern is kept for good.
KeepsFirstPattern(stored, tilePattern) ==
    IF stored = EmptyPattern THEN tilePattern ELSE stored

\* this.lastTilePattern = tileImages
StorePattern(stored, tilePattern) == tilePattern

\* The catch swallows the error and the while loop goes on.
SwallowsFrameError == "loop"

\* catch (error) { console.error(..); throw error }: the sequence is over.
CatchFrameError == "failed"

\* const baseTileSize = mosaicOptions.tileSize || defaultTileSize
BaseTileSize(opts) ==
    IF opts.tileSize = 0 THEN defaultTileSize ELSE opts.tileSize

\* The source image is never replaced.
KeepsInputPath(inputPath, frame) == inputPath

\* currentInputPath = `${baseOutputPath}_${padded globalFrameNumber}${extension}`
NextInputPath(inputPath, frame) == OutputName(frame)

\* The file of a frame: its number and name, the source image read for it
\* (a base mosaic), the tile size it was rendered at and the rectangle of
\* the raster that is its picture.
FrameFile(frame, step, source, tileSize, crop) ==
    [frame |-> frame, step |-> step, name |-> OutputName(frame),
     source |-> source, tileSize |-> tileSize,
     width |-> crop.width, height |-> crop.height, crop |-> crop]

\* An iteration starts (globalFrameNumber++ for its base mosaic), or the loop
\* ends.  A run without maxIterations is followed up to MaxFrames frames.
StartIteration ==
    /\ pc = "loop"
    /\ IF WhileContinues(options, globalFrameNumber)
       THEN /\ options.maxIterations = Unset =>
                  globalFrameNumber + options.zoomSteps + 1 <= MaxFrames
            /\ globalFrameNumber' = NextFrame(globalFrameNumber)
            /\ pc' = "index"
       ELSE /\ pc' = "stopped"
            /\ UNCHANGED globalFrameNumber
    /\ ev' = [NoEvent EXCEPT !.op = "loop"]
    /\ UNCHANGED <<envVars, cacheFile, broken, tileCache, corruptedTiles,
                   lastTilePattern, zoomStep, currentInputPath, mosaicResult,
                   tiles, inputData, tileImages, x, y, rowBuffers, written,
                   loaded>>
    /\ UNCHANGED <<callVars, failedColor>>

\* fs.writeFile(cacheFilePath, ..) inside the try of saveTileCacheToCSV: the
\* file after the call. A write that fails (a directory that cannot be
\* written) leaves the file as it was.
WriteCacheFile(file, saved, writeFails) == IF writeFails THEN file ELSE saved

\* generateMosaic up to the corpus check: cache, tile files, colors. The
\* write of the cache file fails when the file cannot be written;
\* saveTileCacheToCSV catches the error and warns, and generateMosaic goes on.
IndexCorpus ==
    /\ pc = "index"
    /\ \E r \in {IndexTiles([tileCache |-> tileCache,
                             corruptedTiles |-> corruptedTiles],
                            cacheFile, dirFiles, broken)} :
       \E writeFails \in {r.wrote /\ ~cacheWritable} :
           /\ tileCache' = r.gen.tileCache
           /\ corruptedTiles' = r.gen.corruptedTiles
           /\ cacheFile' = WriteCacheFile(cacheFile, r.file, writeFails)
           /\ tiles' = r.tiles
           /\ loaded' = r.loaded
           /\ failedColor' = failedColor \cup
                  {f \in SeqToSet(r.decoded) : ~Decodes(f, broken)}
           /\ pc' = IF r.threw THEN CatchFrameError ELSE "assign"
           /\ ev' = [NoEvent EXCEPT !.op = "index", !.threw = r.threw,
                         !.cacheHit = r.cacheHit, !.scanned = r.scanned,
                         !.newTileFiles = r.newTileFiles, !.wrote = r.wrote,
                         !.writeFailed = writeFails, !.decoded = r.decoded]
    /\ UNCHANGED <<envVars, broken, lastTilePattern, globalFrameNumber,
                   zoomStep, currentInputPath, mosaicResult, inputData,
                   tileImages, x, y, rowBuffers, written>>
    /\ UNCHANGED callVars

\* generateMosaic from the resize of the source image to the grid up to
\* this.lastTilePattern = tileImages.
AssignTiles ==
    /\ pc = "assign"
    /\ \E data \in [1..(options.mosaicWidth * options.mosaicHeight) -> TargetColors] :
          \E a \in {AssignCells(1, data, tiles, corruptedTiles,
                                options.allowReuse, {}, <<>>)} :
              /\ inputData' = data
              /\ IF a.threw
                 THEN /\ pc' = CatchFrameError
                      /\ UNCHANGED <<tileImages, lastTilePattern>>
                 ELSE /\ pc' = "composite"
                      /\ tileImages' = PatternOf(a.picks, tiles,
                             options.mosaicWidth, options.mosaicHeight)
                      /\ lastTilePattern' =
                             StorePattern(lastTilePattern, tileImages')
              /\ ev' = [NoEvent EXCEPT !.op = "assign", !.threw = a.threw]
    /\ x' = 0
    /\ y' = 0
    /\ rowBuffers' = <<>>
    /\ UNCHANGED <<envVars, cacheFile, broken, tileCache, corruptedTiles,
                   globalFrameNumber, zoomStep, currentInputPath, mosaicResult,
                   tiles, written, loaded>>
    /\ UNCHANGED <<callVars, failedColor>>

\* What follows the write of a frame's file: the next zoom step, or the end
\* of the iteration (currentInputPath = the last frame, back to the while).
AfterFrame(step, file) ==
    /\ written' = Append(written, file)
    /\ x' = 0
    /\ y' = 0
    /\ IF step < options.zoomSteps
       THEN /\ zoomStep' = step + 1
            /\ globalFrameNumber' = NextFrame(globalFrameNumber)
            /\ pc' = "zoom"
            /\ UNCHANGED currentInputPath
       ELSE /\ zoomStep' = step
            /\ currentInputPath' =
                   NextInputPath(currentInputPath, globalFrameNumber)
            /\ pc' = "loop"
            /\ UNCHANGED globalFrameNumber

LastCell(width, height) == x = width - 1 /\ y = height - 1

\* The cell after (x, y) in row-major order.
NextCell(width) ==
    IF x = width - 1 THEN x' = 0 /\ y' = y + 1 ELSE x' = x + 1 /\ y' = y

\* One cell of the compositing loop of generateMosaic; after the last cell the
\* file is written and generateMosaicWithTilePattern returns.
CompositeCell ==
    /\ pc = "composite"
    /\ LET width == options.mosaicWidth
           height == options.mosaicHeight
           cell == y * width + x + 1
           tilePath == tileImages[y + 1][x + 1]
       IN  \E c \in {CompositeBase(tilePath, inputData[cell], tiles,
                                   corruptedTiles, broken)} :
           /\ corruptedTiles' = c.corruptedTiles
           /\ ev' = [NoEvent EXCEPT !.op = "cell", !.phase = "base",
                         !.path = tilePath, !.failed = c.failed,
                         !.decoded = c.decoded, !.filled = c.filled,
                         !.threw = c.threw, !.cell = cell]
           /\ IF c.threw
              THEN /\ pc' = CatchFrameError
                   /\ UNCHANGED <<x, y, rowBuffers, written, zoomStep,
                                  globalFrameNumber, currentInputPath,
                                  mosaicResult>>
              ELSE /\ rowBuffers' = PushCell(rowBuffers, x, c.filled[1])
                   /\ IF LastCell(width, height)
                      THEN /\ mosaicResult' =
                                  [width |-> width * options.tileSize,
                                   height |-> height * options.tileSize,
                                   tilePattern |-> lastTilePattern,
                                   mosaicWidth |-> width,
                                   mosaicHeight |-> height]
                           /\ AfterFrame(0,
                                  FrameFile(globalFrameNumber, 0,
                                      currentInputPath, options.tileSize,
                                      CropRect(width * options.tileSize,
                                               height * options.tileSize,
                                               width * options.tileSize,
                                               height * options.tileSize)))
                      ELSE /\ NextCell(width)
                           /\ UNCHANGED <<pc, written, zoomStep,
                                          globalFrameNumber, currentInputPath,
                                          mosaicResult>>
    /\ UNCHANGED <<envVars, cacheFile, broken, tileCache, lastTilePattern,
                   tiles, inputData, tileImages, loaded>>
    /\ UNCHANGED <<callVars, failedColor>>

\* One cell of the loop of generateZoomedMosaicFromPattern; after the last
\* cell the frame is cropped and written.
ZoomCell ==
    /\ pc = "zoom"
    /\ LET width == mosaicResult.mosaicWidth
           height == mosaicResult.mosaicHeight
           newTileSize == ZoomTileSize(BaseTileSize(options),
                                       options.zoomFactor, zoomStep)
           crop == CropRect(width * newTileSize, height * newTileSize,
                            mosaicResult.width, mosaicResult.height)
           last == LastCell(width, height)
           cell == y * width + x + 1
           tilePath == mosaicResult.tilePattern[y + 1][x + 1]
       IN  \E c \in {CompositeZoom(tilePath, inputData[cell], tiles,
                                   corruptedTiles, broken)} :
           /\ corruptedTiles' = c.corruptedTiles
           /\ ev' = [NoEvent EXCEPT !.op = "cell", !.phase = "zoom",
                         !.path = tilePath, !.failed = c.failed,
                         !.decoded = c.decoded, !.filled = c.filled,
                         !.threw = last /\ ExtractFails(crop),
                         !.crop = IF last THEN <<crop>> ELSE <<>>,
                         !.cell = cell]
           /\ rowBuffers' = PushCell(IF x = 0 /\ y = 0 THEN <<>> ELSE rowBuffers,
                                     x, c.filled[1])
           /\ IF last
              THEN IF ExtractFails(crop)
                   THEN /\ pc' = CatchFrameError
                        /\ UNCHANGED <<x, y, written, zoomStep,
                                       globalFrameNumber, currentInputPath>>
                   ELSE AfterFrame(zoomStep,
                            FrameFile(globalFrameNumber, zoomStep, <<>>,
                                      newTileSize, crop))
              ELSE /\ NextCell(width)
                   /\ UNCHANGED <<pc, written, zoomStep, globalFrameNumber,
                                  currentInputPath>>
    /\ UNCHANGED <<envVars, cacheFile, broken, tileCache, lastTilePattern,
                   mosaicResult, tiles, inputData, tileImages, loaded>>
    /\ UNCHANGED <<callVars, failedColor>>

\* A tile file becomes unreadable while the run is going on.
TileBreaks ==
    /\ pc \in {"index", "composite", "zoom"}
    /\ \E p \in TilePaths \ broken : broken' = broken \cup {p}
    /\ ev' = [NoEvent EXCEPT !.op = "break"]
    /\ UNCHANGED <<envVars, cacheFile, tileCache, corruptedTiles,
                   lastTilePattern, pc, globalFrameNumber, zoomStep,
                   currentInputPath, mosaicResult, tiles, inputData,
                   tileImages, x, y, rowBuffers, written, loaded>>
    /\ UNCHANGED <<callVars, failedColor>>

Next ==
    \/ StartIteration
    \/ IndexCorpus
    \/ AssignTiles
    \/ CompositeCell
    \/ ZoomCell
    \/ TileBreaks

Spec == Init /\ [][Next]_vars

\* The steps of the program (all but the environment's TileBreaks) are taken
\* as long as one is possible: the run is a single chain of awaits.
ProgramStep ==
    StartIteration \/ IndexCorpus \/ AssignTiles \/ CompositeCell \/ ZoomCell

\* The zoom sequence over one tile directory without a cache, for every
\* zoomSteps, maxIterations and grid.
ZoomInit ==
    /\ Init
    /\ dirFiles = DirAB
    /\ cacheFile = NoFile
    /\ cacheWritable = TRUE
    /\ options.allowReuse

ZoomSpec == ZoomInit /\ [][Next]_vars /\ WF_vars(ProgramStep)

\* ------------------------------------------------ the geometry of the frames
\* --tile-size: the default, the smallest, and a large one.
TileSizeChoices == {1, defaultTileSize, 40}

\* --zoom-factor: 0.9 (the default), 0.8 and 0.5.
ZoomFactorChoices ==
    {DefaultZoomFactor, [num |-> 4, den |-> 5], [num |-> 1, den |-> 2]}

GeomOptions ==
    {o \in [allowReuse : {TRUE}, zoomSteps : 0..MaxGeomSteps,
            maxIterations : {1},
            mosaicWidth : 1..MaxCols, mosaicHeight : 1..MaxRows,
            tileSize : TileSizeChoices, zoomFactor : ZoomFactorChoices] :
        o.mosaicWidth * o.mosaicHeight <= MaxCells}

\* One iteration over a tile directory without a cache, for every tile size,
\* zoom factor, number of zoom steps and grid.
GeomInit ==
    /\ dirFiles = DirAB
    /\ cacheFile = NoFile
    /\ cacheWritable = TRUE
    /\ broken = TilePaths \ SeqToSet(dirFiles)
    /\ options \in GeomOptions
    /\ tileCache = <<>>
    /\ corruptedTiles = {}
    /\ lastTilePattern = EmptyPattern
    /\ pc = "loop"
    /\ globalFrameNumber = 0
    /\ zoomStep = 0
    /\ currentInputPath = InputImagePath
    /\ mosaicResult = NoResult
    /\ tiles = <<>>
    /\ inputData = <<>>
    /\ tileImages = EmptyPattern
    /\ x = 0
    /\ y = 0
    /\ rowBuffers = <<>>
    /\ written = <<>>
    /\ loaded = <<>>
    /\ failedColor = {}
    /\ decodeOutcomes = <<>>
    /\ retryCount = 0
    /\ attempts = <<>>
    /\ returned = <<>>
    /\ imageFiles = <<>>
    /\ ev = NoEvent

GeomSpec == GeomInit /\ [][Next]_vars

\* ------------------------------------------- the cache round trip on its own
CsvPaths == {<<"a">>, <<"a", "b">>, <<"a", ",", "b">>, <<" ", "a">>}

CsvColors == {<<0, 0, 0>>, <<255, 255, 255>>, <<7, 10, 100>>}

CsvRecords ==
    {TileRecord(p, c[1], c[2], c[3]) : p \in CsvPaths, c \in CsvColors}

\* The corpora of at most MaxCsvTiles records.
CsvCorpora ==
    UNION {[1..n -> CsvRecords] : n \in 0..MaxCsvTiles}

CsvInit ==
    /\ tiles \in CsvCorpora
    /\ cacheFile = NoFile
    /\ cacheWritable = TRUE
    /\ pc = "csvSave"
    /\ dirFiles = <<>>
    /\ broken = {}
    /\ options = [allowReuse |-> TRUE, zoomSteps |-> 0, maxIterations |-> 0,
                  mosaicWidth |-> 1, mosaicHeight |-> 1,
                  tileSize |-> defaultTileSize, zoomFactor |-> DefaultZoomFactor]
    /\ tileCache = <<>>
    /\ corruptedTiles = {}
    /\ lastTilePattern = EmptyPattern
    /\ globalFrameNumber = 0
    /\ zoomStep = 0
    /\ currentInputPath = InputImagePath
    /\ mosaicResult = NoResult
    /\ inputData = <<>>
    /\ tileImages = EmptyPattern
    /\ x = 0
    /\ y = 0
    /\ rowBuffers = <<>>
    /\ written = <<>>
    /\ loaded = <<>>
    /\ failedColor = {}
    /\ decodeOutcomes = <<>>
    /\ retryCount = 0
    /\ attempts = <<>>
    /\ returned = <<>>
    /\ imageFiles = <<>>
    /\ ev = NoEvent

\* saveTileCacheToCSV(tiles, cacheFilePath)
CsvSave ==
    /\ pc = "csvSave"
    /\ cacheFile' = saveTileCacheToCSV(tiles)
    /\ pc' = "csvLoad"
    /\ ev' = [NoEvent EXCEPT !.op = "save", !.wrote = TRUE]
    /\ UNCHANGED <<envVars, broken, tileCache, corruptedTiles, lastTilePattern,
                   globalFrameNumber, zoomStep, currentInputPath, mosaicResult,
                   tiles, inputData, tileImages, x, y, rowBuffers, written,
                   loaded>>
    /\ UNCHANGED <<callVars, failedColor>>

\* loadTileCacheFromCSV(cacheFilePath) on the file just written
CsvLoad ==
    /\ pc = "csvLoad"
    /\ \E load \in {loadTileCacheFromCSV(cacheFile)} :
           /\ loaded' = load.tiles
           /\ tileCache' = CacheAll(tileCache, load.tiles, 1)
           /\ ev' = [NoEvent EXCEPT !.op = "load", !.cacheHit = ~load.null]
    /\ pc' = "csvDone"
    /\ UNCHANGED <<envVars, cacheFile, broken, corruptedTiles, lastTilePattern,
                   globalFrameNumber, zoomStep, currentInputPath, mosaicResult,
                   tiles, inputData, tileImages, x, y, rowBuffers, written>>
    /\ UNCHANGED <<callVars, failedColor>>

CsvNext == CsvSave \/ CsvLoad

SpecCsv == CsvInit /\ [][CsvNext]_vars

\* ------------------------------------------- one getAverageColor call alone
\* What a decode does: it succeeds, or it fails with a message.  The first
\* two messages are those with 'Premature end' or 'truncated' in them.
RetryableMessages == {"Premature end", "truncated"}
DecodeMessages == {"ok"} \cup RetryableMessages \cup {"unsupported image format"}

\* One retry more than the code makes.
RetriesThreeTimes(count, message) ==
    count < 3 /\ message \in RetryableMessages

\* retryCount < 2 && (error.message.includes('Premature end') ||
\*                    error.message.includes('truncated'))
MayRetry(count, message) ==
    count < 2 /\ message \in RetryableMessages

\* The tile whose color is asked for.
RetryPath == <<"a">>

\* A call of getAverageColor(RetryPath) on a generator that knows the path as
\* corrupted, has its color cached, or has never seen it; the decodes will do
\* what decodeOutcomes says, one entry per attempt.
RetryInit ==
    /\ decodeOutcomes \in [1..MaxDecodes -> DecodeMessages]
    /\ \E known \in {"new", "cached", "corrupted"} :
           /\ tileCache = IF known = "cached"
                          THEN MapSet(<<>>, RetryPath, AverageColor(RetryPath))
                          ELSE <<>>
           /\ corruptedTiles = IF known = "corrupted" THEN {RetryPath} ELSE {}
    /\ pc = "call"
    /\ retryCount = 0
    /\ attempts = <<>>
    /\ returned = <<>>
    /\ dirFiles = <<RetryPath>>
    /\ cacheFile = NoFile
    /\ cacheWritable = TRUE
    /\ broken = {}
    /\ options = [allowReuse |-> TRUE, zoomSteps |-> 0, maxIterations |-> 0,
                  mosaicWidth |-> 1, mosaicHeight |-> 1,
                  tileSize |-> defaultTileSize, zoomFactor |-> DefaultZoomFactor]
    /\ lastTilePattern = EmptyPattern
    /\ globalFrameNumber = 0
    /\ zoomStep = 0
    /\ currentInputPath = InputImagePath
    /\ mosaicResult = NoResult
    /\ tiles = <<>>
    /\ inputData = <<>>
    /\ tileImages = EmptyPattern
    /\ x = 0
    /\ y = 0
    /\ rowBuffers = <<>>
    /\ written = <<>>
    /\ loaded = <<>>
    /\ failedColor = {}
    /\ imageFiles = <<>>
    /\ ev = NoEvent

retryFrame ==
    <<envVars, cacheFile, broken, lastTilePattern, globalFrameNumber, zoomStep,
      currentInputPath, mosaicResult, tiles, inputData, tileImages, x, y,
      rowBuffers, written, loaded, decodeOutcomes, imageFiles>>

\* The entry of getAverageColor: a corrupted path gives null, a cached one
\* its color; otherwise processImage() starts.
ColorCall ==
    /\ pc = "call"
    /\ IF RetryPath \in corruptedTiles
       THEN pc' = "returned" /\ returned' = <<>>
       ELSE IF RetryPath \in DOMAIN tileCache
       THEN pc' = "returned" /\ returned' = <<tileCache[RetryPath]>>
       ELSE pc' = "decode" /\ returned' = returned
    /\ ev' = [NoEvent EXCEPT !.op = "call"]
    /\ UNCHANGED <<retryFrame, tileCache, corruptedTiles, failedColor,
                   retryCount, attempts>>

\* One processImage(retryCount): the decode succeeds (the color is cached and
\* returned), fails and is retried after the wait, or fails for good (the
\* path is marked corrupted and null is returned).
DecodeAttempt ==
    /\ pc = "decode"
    /\ LET message == decodeOutcomes[Len(attempts) + 1]
       IN  /\ attempts' = Append(attempts,
                  [message |-> message, retryCount |-> retryCount,
                   waited |-> ev.op = "backoff"])
           /\ IF message = "ok"
              THEN /\ tileCache' =
                          MapSet(tileCache, RetryPath, AverageColor(RetryPath))
                   /\ returned' = <<AverageColor(RetryPath)>>
                   /\ pc' = "returned"
                   /\ UNCHANGED <<corruptedTiles, failedColor>>
              ELSE IF MayRetry(retryCount, message)
              THEN /\ pc' = "backoff"
                   /\ UNCHANGED <<tileCache, corruptedTiles, failedColor,
                                  returned>>
              ELSE /\ corruptedTiles' = MarkCorrupted(corruptedTiles, RetryPath)
                   /\ failedColor' = failedColor \cup {RetryPath}
                   /\ returned' = <<>>
                   /\ pc' = "returned"
                   /\ UNCHANGED tileCache
    /\ ev' = [NoEvent EXCEPT !.op = "decode", !.path = RetryPath]
    /\ UNCHANGED <<retryFrame, retryCount>>

\* await new Promise((resolve) => setTimeout(resolve, 1000));
\* return processImage(retryCount + 1)
Backoff ==
    /\ pc = "backoff"
    /\ retryCount' = retryCount + 1
    /\ pc' = "decode"
    /\ ev' = [NoEvent EXCEPT !.op = "backoff"]
    /\ UNCHANGED <<retryFrame, tileCache, corruptedTiles, failedColor,
                   attempts, returned>>

RetryNext == ColorCall \/ DecodeAttempt \/ Backoff

SpecRetry == RetryInit /\ [][RetryNext]_vars

\* ----------------------------------------------------- the video assembler
\* The UTF-16 code unit of the characters of a frame's file name.
CharCode(c) ==
    CASE c = "." -> 46
      [] IsDigit(c) -> 48 + DigitValue(c)
      [] c = "_" -> 95
      [] c = "g" -> 103
      [] c = "j" -> 106
      [] c = "n" -> 110
      [] c = "o" -> 111
      [] c = "p" -> 112

\* a < b for two strings, as Array.prototype.sort() without a comparator
\* orders them: by the code units, a proper prefix first.
RECURSIVE StringLess(_, _)
StringLess(a, b) ==
    IF Len(b) = 0 THEN FALSE
    ELSE IF Len(a) = 0 THEN TRUE
    ELSE IF CharCode(a[1]) # CharCode(b[1])
    THEN CharCode(a[1]) < CharCode(b[1])
    ELSE StringLess(Tail(a), Tail(b))

\* One element put at its place in a sorted list.
RECURSIVE InsertSorted(_, _)
InsertSorted(sorted, str) ==
    IF Len(sorted) = 0 THEN <<str>>
    ELSE IF StringLess(str, sorted[1]) THEN <<str>> \o sorted
    ELSE <<sorted[1]>> \o InsertSorted(Tail(sorted), str)

\* files.sort()
RECURSIVE SortStrings(_)
SortStrings(files) ==
    IF Len(files) = 0 THEN <<>>
    ELSE InsertSorted(SortStrings(Tail(files)), files[1])

\* path.extname(file).toLowerCase(): from the last dot on.
ExtName(file) ==
    The({IF dots = {} THEN <<>>
         ELSE SubSeq(file, CHOOSE i \in dots : \A j \in dots : j <= i, Len(file)) :
         dots \in {{i \in 1..Len(file) : file[i] = "."}}})

SupportedExtensions == {<<".", "j", "p", "g">>, <<".", "p", "n", "g">>}

\* getImageFiles(directory) of makeVideo.cjs: the files of the directory
\* with an image extension, sorted alphabetically.
getImageFiles(files) ==
    SortStrings(SelectSeq(files, LAMBDA f : ExtName(f) \in SupportedExtensions))

\* Frame numbers of a long run: around every change of the number of digits.
FrameSamples ==
    {1, 2, 9, 10, 11, 99, 100, 101, 999, 1000, 1001, 9998, 9999, 10000, 10001}

\* The frame directory holds the files of two frames of a run.
VideoInit ==
    /\ \E m \in FrameSamples, n \in FrameSamples :
           /\ m < n
           /\ written =
                  <<FrameFile(m, 0, <<>>, defaultTileSize,
                        WholeRaster(defaultTileSize, defaultTileSize,
                                    defaultTileSize, defaultTileSize)),
                    FrameFile(n, 0, <<>>, defaultTileSize,
                        WholeRaster(defaultTileSize, defaultTileSize,
                                    defaultTileSize, defaultTileSize))>>
           /\ globalFrameNumber = n
    /\ pc = "video"
    /\ dirFiles = <<>>
    /\ cacheFile = NoFile
    /\ cacheWritable = TRUE
    /\ broken = {}
    /\ options = [allowReuse |-> TRUE, zoomSteps |-> 0, maxIterations |-> Unset,
                  mosaicWidth |-> 1, mosaicHeight |-> 1,
                  tileSize |-> defaultTileSize, zoomFactor |-> DefaultZoomFactor]
    /\ tileCache = <<>>
    /\ corruptedTiles = {}
    /\ lastTilePattern = EmptyPattern
    /\ zoomStep = 0
    /\ currentInputPath = InputImagePath
    /\ mosaicResult = NoResult
    /\ tiles = <<>>
    /\ inputData = <<>>
    /\ tileImages = EmptyPattern
    /\ x = 0
    /\ y = 0
    /\ rowBuffers = <<>>
    /\ loaded = <<>>
    /\ failedColor = {}
    /\ decodeOutcomes = <<>>
    /\ retryCount = 0
    /\ attempts = <<>>
    /\ returned = <<>>
    /\ imageFiles = <<>>
    /\ ev = NoEvent

\* createVideo lists the frame directory (readdirSync gives the files in any
\* order; here the later frame first).
CreateVideo ==
    /\ pc = "video"
    /\ imageFiles' = getImageFiles(<<written[2].name, written[1].name>>)
    /\ pc' = "videoDone"
    /\ ev' = [NoEvent EXCEPT !.op = "video"]
    /\ UNCHANGED <<envVars, cacheFile, broken, tileCache, corruptedTiles,
                   lastTilePattern, globalFrameNumber, zoomStep,
                   currentInputPath, mosaicResult, tiles, inputData,
                   tileImages, x, y, rowBuffers, written, loaded, failedColor,
                   decodeOutcomes, retryCount, attempts, returned>>

SpecVideo == VideoInit /\ [][CreateVideo]_vars

\* ------------------------------------------------- calls followed on their own
\* The state the zoom sequence would use, at rest while one function of the
\* generator is followed on its own.
AtRest ==
    /\ dirFiles = <<>>
    /\ cacheFile = NoFile
    /\ cacheWritable = TRUE
    /\ broken = {}
    /\ tileCache = <<>>
    /\ lastTilePattern = EmptyPattern
    /\ globalFrameNumber = 0
    /\ zoomStep = 0
    /\ currentInputPath = InputImagePath
    /\ x = 0
    /\ y = 0
    /\ written = <<>>
    /\ loaded = <<>>
    /\ failedColor = {}
    /\ decodeOutcomes = <<>>
    /\ retryCount = 0
    /\ attempts = <<>>
    /\ imageFiles = <<>>
    /\ ev = NoEvent

restFrame ==
    <<dirFiles, cacheFile, cacheWritable, broken, tileCache, lastTilePattern,
      globalFrameNumber, zoomStep, currentInputPath, x, y, written, loaded,
      failedColor, decodeOutcomes, retryCount, attempts, imageFiles>>

RestOptions ==
    [allowReuse |-> TRUE, zoomSteps |-> 0, maxIterations |-> Unset,
     mosaicWidth |-> 1, mosaicHeight |-> 1, tileSize |-> defaultTileSize,
     zoomFactor |-> DefaultZoomFactor]

\* -------------------------------------------------------- one findBestTile
\* The colors of the candidates and of the target: black and white, the
\* grays 10, 100, 200 and 90, and two colors equally far from gray 90.
MatchColors ==
    {Color(0), Color(255), Color(10), Color(200), Color(100),
     [r |-> 80, g |-> 90, b |-> 90], [r |-> 100, g |-> 90, b |-> 90]}

MatchTargets == {Color(90), Color(0), Color(255)}

\* The path of the i-th candidate.
MatchPath(i) == <<"t">> \o NumToString(i)

\* A call findBestTile(targetColor, availableTiles) on a generator whose
\* corrupted set holds some of the candidates' paths.
MatchInit ==
    /\ \E n \in 1..MaxCandidates :
           \E colors \in [1..n -> MatchColors] :
               tiles = [i \in 1..n |->
                           TileRecord(MatchPath(i), colors[i].r, colors[i].g,
                                      colors[i].b)]
    /\ corruptedTiles \in SUBSET {tiles[i].path : i \in 1..Len(tiles)}
    /\ \E targetColor \in MatchTargets : inputData = <<targetColor>>
    /\ pc = "match"
    /\ returned = <<>>
    /\ options = RestOptions
    /\ mosaicResult = NoResult
    /\ tileImages = EmptyPattern
    /\ rowBuffers = <<>>
    /\ AtRest

\* The call: `returned` holds the candidate returned, as its position in the
\* candidate list (<<>> when findBestTile threw).
FindBest ==
    /\ pc = "match"
    /\ \E bestTile \in {findBestTile(inputData[1],
                                     [i \in 1..Len(tiles) |-> i], tiles,
                                     corruptedTiles)} :
           /\ returned' = IF bestTile = 0 THEN <<>> ELSE <<bestTile>>
           /\ ev' = [NoEvent EXCEPT !.op = "match", !.threw = (bestTile = 0)]
    /\ pc' = "matched"
    /\ UNCHANGED <<restFrame, options, corruptedTiles, mosaicResult, tiles,
                   inputData, tileImages, rowBuffers>>

MatchSpec == MatchInit /\ [][FindBest]_vars

\* ------------------------------------------------- the grid of generateMosaic
\* A number or null taken as a condition (v || .., v ? .. : ..): null, NaN
\* and 0 are falsy.
TruthyNumber(v) == v # Unset /\ v # NaN /\ v # 0

\* computedMosaicWidth = mosaicWidth || Math.round(outputWidth / tileSize);
\* finalMosaicWidth = computedMosaicWidth.
FinalMosaicWidth(opts) ==
    IF TruthyNumber(opts.mosaicWidth) THEN opts.mosaicWidth
    ELSE RoundDiv(opts.outputWidth, opts.tileSize)

\* A height that follows the aspect ratio even when outputHeight is given.
HeightFromAspectOnly(opts, inputMetadata, finalMosaicWidth) ==
    RoundDiv(finalMosaicWidth * inputMetadata.height, inputMetadata.width)

\* computedMosaicHeight, with aspectRatio = inputMetadata.height /
\* inputMetadata.width. The quotients are exact here: the aspect ratios of
\* InputSizes are powers of two, and outputHeight / tileSize is an integer
\* plus one half only when the double is too.
ComputedMosaicHeight(opts, inputMetadata, finalMosaicWidth) ==
    IF TruthyNumber(opts.outputHeight)
    THEN RoundDiv(opts.outputHeight, opts.tileSize)
    ELSE RoundDiv(finalMosaicWidth * inputMetadata.height, inputMetadata.width)

\* finalMosaicHeight = mosaicHeight || computedMosaicHeight.
FinalMosaicHeight(opts, inputMetadata) ==
    IF TruthyNumber(opts.mosaicHeight) THEN opts.mosaicHeight
    ELSE ComputedMosaicHeight(opts, inputMetadata, FinalMosaicWidth(opts))

defaultOutputWidth == 1200

\* Positive option values (Unset: the option is not given) and the sizes of
\* the input image, aspect ratios 1/8, 1/2, 1 and 2.
OutputWidthChoices == {2, 9, 15, defaultOutputWidth}
OutputHeightChoices == {Unset, 2, 9, 600}
MosaicWidthChoices == {Unset, 1, 3}
MosaicHeightChoices == {Unset, 1, 2}
GridTileSizes == {1, defaultTileSize, 40}
InputSizes ==
    {[width |-> 8, height |-> 1], [width |-> 2, height |-> 1],
     [width |-> 1, height |-> 1], [width |-> 1, height |-> 2]}

GridOptions ==
    [allowReuse : {TRUE}, zoomSteps : {0}, maxIterations : {Unset},
     outputWidth : OutputWidthChoices, outputHeight : OutputHeightChoices,
     mosaicWidth : MosaicWidthChoices, mosaicHeight : MosaicHeightChoices,
     tileSize : GridTileSizes, zoomFactor : {DefaultZoomFactor}]

\* A call of generateMosaic up to the grid it resizes the input image to;
\* inputData holds the metadata of the input image.
GridInit ==
    /\ options \in GridOptions
    /\ \E inputMetadata \in InputSizes : inputData = <<inputMetadata>>
    /\ pc = "plan"
    /\ mosaicResult = NoResult
    /\ corruptedTiles = {}
    /\ tiles = <<>>
    /\ tileImages = EmptyPattern
    /\ rowBuffers = <<>>
    /\ returned = <<>>
    /\ AtRest

\* The grid is computed: mosaicResult holds finalMosaicWidth and
\* finalMosaicHeight, the arguments of resize().
PlanGrid ==
    /\ pc = "plan"
    /\ mosaicResult' =
           [NoResult EXCEPT !.mosaicWidth = FinalMosaicWidth(options),
                            !.mosaicHeight =
                                FinalMosaicHeight(options, inputData[1])]
    /\ pc' = "planned"
    /\ ev' = [NoEvent EXCEPT !.op = "plan"]
    /\ UNCHANGED <<restFrame, options, corruptedTiles, tiles, inputData,
                   tileImages, rowBuffers, returned>>

GridSpec == GridInit /\ [][PlanGrid]_vars

\* ------------------------------------------- loadTileCacheFromCSV on any file
\* The first line of a tiles.csv written by hand: the header, a record, a
\* blank line, a word.
FirstLineChoices ==
    {CsvHeader, <<"a", ",", "1", ",", "2", ",", "3">>, <<>>, <<"x">>}

\* The later lines: two records, a line of three fields, a line with an
\* empty field, a blank line, a record with spaces, a line of five fields,
\* a record whose color is not a number.
LaterLineChoices ==
    {<<"a", ",", "1", ",", "2", ",", "3">>,
     <<"b", ",", "4", ",", "5", ",", "6">>,
     <<"a", ",", "1", ",", "2">>,
     <<"a", ",", ",", "2", ",", "3">>,
     <<>>,
     <<" ", "a", ",", " ", "1", ",", "2", " ", ",", "3">>,
     <<"a", ",", "1", ",", "2", ",", "3", ",", "4">>,
     <<"a", ",", "x", ",", "2", ",", "3">>}

CsvFileLines ==
    UNION {{<<first>> \o later : first \in FirstLineChoices,
                                 later \in [1..n -> LaterLineChoices]} :
           n \in 0..(MaxCsvLines - 1)}

\* A generator about to load a tiles.csv of at most MaxCsvLines lines.
LoadInit ==
    /\ \E lines \in CsvFileLines : cacheFile = File(Join(lines, "\n"))
    /\ cacheWritable = TRUE
    /\ pc = "csvLoad"
    /\ tiles = <<>>
    /\ dirFiles = <<>>
    /\ broken = {}
    /\ options = RestOptions
    /\ tileCache = <<>>
    /\ corruptedTiles = {}
    /\ lastTilePattern = EmptyPattern
    /\ globalFrameNumber = 0
    /\ zoomStep = 0
    /\ currentInputPath = InputImagePath
    /\ mosaicResult = NoResult
    /\ inputData = <<>>
    /\ tileImages = EmptyPattern
    /\ x = 0
    /\ y = 0
    /\ rowBuffers = <<>>
    /\ written = <<>>
    /\ loaded = <<>>
    /\ failedColor = {}
    /\ decodeOutcomes = <<>>
    /\ retryCount = 0
    /\ attempts = <<>>
    /\ returned = <<>>
    /\ imageFiles = <<>>
    /\ ev = NoEvent

SpecCsvLoad == LoadInit /\ [][CsvLoad]_vars

\* --------------------------------------------- the pixels of the compositor
\* The tile images of the pixel-level compositor: two RGB images and one
\* with an alpha channel (a PNG, GIF or WebP tile), whose raw buffer has 4
\* bytes per pixel. `seed` tells the images apart.
PixelTiles ==
    {[seed |-> 0, channels |-> 3], [seed |-> 100, channels |-> 3],
     [seed |-> 200, channels |-> 4]}

\* Channel c of pixel (tx, ty) of the tile resized to s by s.
TilePixel(tile, s, tx, ty, c) == (tile.seed + (ty * s + tx) * 7 + c) % 256

\* sharp(tilePath).resize(tileSize, tileSize).raw().toBuffer(): the pixels
\* left to right, top to bottom, as many bytes per pixel as the image has
\* channels.
TileBuffer(tile, s) ==
    [o \in 0..(s * s * tile.channels - 1) |->
        TilePixel(tile, s, (o \div tile.channels) % s,
                  (o \div tile.channels) \div s, o % tile.channels)]

\* The iterations of the copy loops of one row: tile x, tile row ty, tile
\* column tx, and the three assignments (c = 0, 1, 2) of the loop body.
CopySteps(cols, s) ==
    [x : 0..(cols - 1), ty : 0..(s - 1), tx : 0..(s - 1), c : 0..2]

\* The position of an iteration in the order the loops run.
CopyOrder(w, s) == ((w.x * s + w.ty) * s + w.tx) * 3 + w.c

\* srcOffset = (ty * tileSize + tx) * 3, plus the channel.
SrcOffset(w, s) == (w.ty * s + w.tx) * 3 + w.c

\* dstOffset = (ty * rowWidth + (x * tileSize + tx)) * 3, plus the channel.
DstOffset(w, rowWidth, s) == (w.ty * rowWidth + (w.x * s + w.tx)) * 3 + w.c

\* A read of a Buffer: undefined past its end, which a Buffer stores as 0.
ReadByte(buffer, o) == IF o \in DOMAIN buffer THEN buffer[o] ELSE 0

\* The rowBuffer of one row of tiles: Buffer.alloc(rowWidth * rowHeight * 3)
\* filled with zeros, then the copy loops; a byte holds what the last
\* iteration that wrote it stored.
RowBuffer(tileBuffers, s) ==
    LET cols == Len(tileBuffers)
        rowWidth == cols * s
    IN  [o \in 0..(rowWidth * s * 3 - 1) |->
            The({IF ws = {} THEN 0
                 ELSE LET last == CHOOSE w \in ws :
                                      \A v \in ws : CopyOrder(v, s) <= CopyOrder(w, s)
                      IN  ReadByte(tileBuffers[last.x + 1], SrcOffset(last, s)) :
                 ws \in {{w \in CopySteps(cols, s) :
                             DstOffset(w, rowWidth, s) = o}}})]

\* Buffer.concat(rowBuffers): byte o of the result, rows of rowLength bytes.
ConcatByte(rows, rowLength, o) == rows[(o \div rowLength) + 1][o % rowLength]

\* A compositing pass of generateMosaic over an assignment of decodable
\* tiles: a grid of at most MaxPixelCols by MaxPixelRows cells and a tile
\* size of at most MaxPixelTile.
PixelInit ==
    /\ \E cols \in 1..MaxPixelCols, rows \in 1..MaxPixelRows,
          s \in 1..MaxPixelTile :
           /\ options = [RestOptions EXCEPT !.mosaicWidth = cols,
                                            !.mosaicHeight = rows,
                                            !.tileSize = s]
           /\ tileImages \in [1..rows -> [1..cols -> PixelTiles]]
    /\ pc = "rows"
    /\ mosaicResult = NoResult
    /\ corruptedTiles = {}
    /\ tiles = <<>>
    /\ inputData = <<>>
    /\ rowBuffers = <<>>
    /\ returned = <<>>
    /\ AtRest

pixelFrame ==
    <<dirFiles, cacheFile, cacheWritable, broken, tileCache, lastTilePattern,
      globalFrameNumber, zoomStep, currentInputPath, x, loaded, failedColor,
      decodeOutcomes, retryCount, attempts, imageFiles, options,
      corruptedTiles, tiles, inputData, tileImages, returned, mosaicResult>>

\* One pass of the loop over y: the tiles of the row are decoded and copied
\* into a rowBuffer, which is pushed to rowBuffers.
CompositeRow ==
    /\ pc = "rows"
    /\ LET s == options.tileSize
           tileBuffers == [col \in 1..options.mosaicWidth |->
                              TileBuffer(tileImages[y + 1][col], s)]
       IN  rowBuffers' = Append(rowBuffers, RowBuffer(tileBuffers, s))
    /\ y' = y + 1
    /\ pc' = IF y + 1 < options.mosaicHeight THEN "rows" ELSE "concat"
    /\ ev' = [NoEvent EXCEPT !.op = "row"]
    /\ UNCHANGED <<pixelFrame, written>>

\* finalBuffer = Buffer.concat(rowBuffers), written as a raw image of
\* finalWidth by finalHeight pixels of 3 channels.
WriteMosaic ==
    /\ pc = "concat"
    /\ LET s == options.tileSize
           finalWidth == options.mosaicWidth * s
           finalHeight == options.mosaicHeight * s
           rowLength == finalWidth * s * 3
       IN  written' =
               <<[width |-> finalWidth, height |-> finalHeight, channels |-> 3,
                  data |-> [o \in 0..(Len(rowBuffers) * rowLength - 1) |->
                               ConcatByte(rowBuffers, rowLength, o)]]>>
    /\ pc' = "composited"
    /\ ev' = [NoEvent EXCEPT !.op = "write"]
    /\ UNCHANGED <<pixelFrame, y, rowBuffers>>

PixelSpec == PixelInit /\ [][CompositeRow \/ WriteMosaic]_vars

\* ------------------------------------------------------------------ claims
\* The paths of the cells of a tile pattern.
PatternPaths(pattern) ==
    {pattern[row][col] : row \in 1..Len(pattern), col \in 1..Len(pattern[1])}

\* The tiles of the corpus that are not in the corrupted set.
UsableTiles == {i \in 1..Len(tiles) : tiles[i].path \notin corruptedTiles}

\* C1: while a frame is being composited (base mosaic or zoom step), no path
\* of the corrupted set is the tile of a cell of the assignment being
\* rendered, nor of the stored assignment lastTilePattern.
C1_CorruptedExclusion ==
    /\ pc = "composite" =>
           (PatternPaths(tileImages) \cup PatternPaths(lastTilePattern))
               \cap corruptedTiles = {}
    /\ pc = "zoom" =>
           (PatternPaths(mosaicResult.tilePattern)
               \cup PatternPaths(lastTilePattern)) \cap corruptedTiles = {}

\* C2: with allowReuse = false and at least one tile of the corpus outside
\* the corrupted set, the assignment phase never fails for want of a
\* candidate: every cell gets a tile.
C2_NoReuseNeverFails ==
    (ev.op = "assign" /\ ~options.allowReuse /\ UsableTiles # {})
        => (~ev.threw /\ pc = "composite"
            /\ Len(tileImages) = options.mosaicHeight
            /\ \A row \in 1..Len(tileImages) :
                   Len(tileImages[row]) = options.mosaicWidth)

\* The tile whose pixels fill a cell is a nearest one to the cell's target
\* color among the corpus tiles outside the corrupted set.
NearestUsable(filled, targetColor) ==
    \E j \in UsableTiles :
        /\ tiles[j].path = filled
        /\ \A i \in UsableTiles :
               colorDistanceSq(targetColor, tiles[j])
                   <= colorDistanceSq(targetColor, tiles[i])

\* C3: in every frame the compositor renders (base mosaic and zoom steps),
\* when the decode of a cell's tile fails, the tile's path is in the
\* corrupted set and the cell is filled with the pixels of the nearest tile
\* that is not corrupted.
C3_FailureSubstitutesNearest ==
    (ev.op = "cell" /\ ev.failed /\ ~ev.threw)
        => (/\ ev.path \in corruptedTiles
            /\ NearestUsable(ev.filled[1], inputData[ev.cell]))

\* C4: a tile's decode failure during the compositing of the base mosaic does
\* not escape generateMosaic while the corpus still holds a tile that is not
\* corrupted and decodes.
C4_DecodeFailureNeverEscapes ==
    (ev.op = "cell" /\ ev.phase = "base" /\ ev.failed
        /\ \E i \in UsableTiles : Decodes(tiles[i].path, broken))
        => (~ev.threw /\ pc # "failed")

\* C5: no step tries to decode a path that is already in the corrupted set.
C5_CorruptedNeverRetried ==
    [][\A i \in 1..Len(ev'.decoded) : ev'.decoded[i] \notin corruptedTiles]_vars

\* C6: when the cache was loaded and the directory holds an image whose path
\* is not in the cache, generateMosaic scans the directory, computes the
\* color of the new paths, adds the computed ones to the corpus and rewrites
\* the cache file.
C6_ReconcileAddsNewTiles ==
    LET cachedPaths == {loaded[i].path : i \in 1..Len(loaded)}
        newPaths == SeqToSet(dirFiles) \ cachedPaths
    IN  (ev.op = "index" /\ ev.cacheHit /\ newPaths # {})
            => (/\ ev.scanned
                /\ SeqToSet(ev.newTileFiles) = newPaths
                /\ ev.wrote
                /\ \A p \in newPaths \ (corruptedTiles \cup broken) :
                       \E i \in 1..Len(tiles) : tiles[i].path = p)

\* C7: when the cache was loaded and no path outside it was discovered,
\* generateMosaic writes no cache file (the file stays as it was), decodes no
\* tile for color analysis and uses the cached records as loaded.
C7_NoNewTilesNoRewrite ==
    [][(ev'.op = "index" /\ ev'.cacheHit /\ ev'.newTileFiles = <<>>)
           => (/\ ~ev'.wrote
               /\ cacheFile' = cacheFile
               /\ ev'.decoded = <<>>
               /\ tiles' = loaded')]_vars

C7_Witness ==
    ev.op = "index" /\ ev.cacheHit /\ ev.newTileFiles = <<>> /\ Len(tiles) > 0
        /\ pc = "assign"

\* C8: a cache file that is missing, empty or without a well-formed record
\* is no cache: generateMosaic scans the directory (and computes the colors)
\* instead of taking the file for a cache.
C8_MalformedCacheIsNoCache ==
    (ev.op = "index" /\ Len(loaded) = 0) => (~ev.cacheHit /\ ev.scanned)

\* C9: saving a corpus and loading the written file gives back the same
\* records, in the same order, with the same path, r, g and b.
C9_CacheRoundTrip ==
    pc = "csvDone" => loaded = tiles

\* The frames written as base mosaics.
BaseFrames == {i \in 1..Len(written) : written[i].step = 0}

\* C10: with maxIterations = M the run ends (stopped, or failed on an error),
\* and when it stops it has made exactly M iterations and M * (zoomSteps + 1)
\* frames, floor(globalFrameNumber / (zoomSteps + 1)) being M; a run without
\* maxIterations never stops.
C10_StopsAfterMaxIterations ==
    /\ [](pc = "stopped" =>
            /\ options.maxIterations # Unset
            /\ globalFrameNumber = options.maxIterations * (options.zoomSteps + 1)
            /\ Len(written) = options.maxIterations * (options.zoomSteps + 1)
            /\ Cardinality(BaseFrames) = options.maxIterations
            /\ globalFrameNumber \div (options.zoomSteps + 1)
                   = options.maxIterations)
    /\ [](options.maxIterations # Unset => <>(pc \in {"stopped", "failed"}))

C10_Witness ==
    /\ pc = "stopped"
    /\ options.maxIterations = 2
    /\ options.zoomSteps = 1
    /\ Len(written) = 4

\* C11: the frames written are numbered 1, 2, 3, ... in the order of the
\* writes, without a gap or a repeat; frame n is a base mosaic iff
\* (n - 1) mod (zoomSteps + 1) = 0 and zoom step (n - 1) mod (zoomSteps + 1)
\* otherwise; its file name carries the number padded to four digits.
C11_FrameNumbering ==
    /\ \A i \in 1..Len(written) :
           /\ written[i].frame = i
           /\ written[i].step = (i - 1) % (options.zoomSteps + 1)
           /\ i < 10 => written[i].name =
                  BaseOutputPath \o <<"_", "0", "0", "0", Digits[i + 1]>>
                      \o Extension
    /\ globalFrameNumber \in {Len(written), Len(written) + 1}

C11_Witness ==
    /\ options.zoomSteps = 1
    /\ Len(written) = 4
    /\ written[3].step = 0
    /\ written[4].step = 1

\* C12: for two frames m < n of a zoom sequence, the file name of frame m
\* sorts before the file name of frame n, so that the video assembler's
\* alphabetical sort lists the frames in the order of their numbers.
C12_NamesSortByFrame ==
    pc = "videoDone" =>
        /\ written[1].frame < written[2].frame
        /\ StringLess(written[1].name, written[2].name)
        /\ imageFiles = <<written[1].name, written[2].name>>

\* The step-k tile size T is the integer nearest to B * (1/z)^k for the zoom
\* factor z = num / den.
NearestToGrowth(T, B, zoomFactor, k) ==
    LET scaled == T * Pow(zoomFactor.num, k)
        exact == B * Pow(zoomFactor.den, k)
    IN  /\ 2 * (scaled - exact) <= Pow(zoomFactor.num, k)
        /\ 2 * (exact - scaled) <= Pow(zoomFactor.num, k)

\* C13: the tile size of zoom step k is round(B * (1/z)^k), from the base
\* tile size B and k and not from the step before (B = 40, z = 0.9: 44 at
\* k = 1, 49 at k = 2); it is at least B and does not shrink from a step to
\* the next.
C13_ZoomTileSize ==
    \A i \in 1..Len(written) :
        written[i].step > 0 =>
            /\ NearestToGrowth(written[i].tileSize, options.tileSize,
                               options.zoomFactor, written[i].step)
            /\ written[i].tileSize >= options.tileSize
            /\ written[i].tileSize >= written[i - 1].tileSize
            /\ (options.tileSize = 40 /\ options.zoomFactor = DefaultZoomFactor)
                   => written[i].tileSize =
                          (IF written[i].step = 1 THEN 44
                           ELSE IF written[i].step = 2 THEN 49
                           ELSE written[i].tileSize)

C13_Witness ==
    /\ Len(written) = 3
    /\ options.tileSize = 40
    /\ options.zoomFactor = DefaultZoomFactor
    /\ written[3].step = 2
    /\ written[3].tileSize = 49

\* C14: every zoom-step frame is written with the pixel dimensions of the
\* base mosaic of its iteration, cols * tileSize by rows * tileSize.
C14_ZoomFrameDimensions ==
    \A i \in 1..Len(written) :
        written[i].step > 0 =>
            /\ written[i].width = written[i - written[i].step].width
            /\ written[i].height = written[i - written[i].step].height
            /\ written[i].width = options.mosaicWidth * options.tileSize
            /\ written[i].height = options.mosaicHeight * options.tileSize

C14_Witness ==
    /\ Len(written) = 3
    /\ written[3].step = 2
    /\ written[3].crop.cropped
    /\ written[3].crop.fullWidth > written[3].width
    /\ options.mosaicHeight = 2

\* The margins a crop of size `size` at offset `offset` leaves in a raster
\* of size `full` differ by one pixel at most.
Centered(offset, size, full) ==
    /\ offset - (full - size - offset) <= 1
    /\ (full - size - offset) - offset <= 1

\* C15: when a zoom frame is cropped, the rectangle lies inside the
\* oversized raster (left, top >= 0, left + width <= fullWidth, top + height
\* <= fullHeight) and is centered up to one pixel.
C15_CropInsideRaster ==
    (ev.crop # <<>> /\ ev.crop[1].cropped) =>
        LET crop == ev.crop[1]
        IN  /\ crop.left >= 0
            /\ crop.top >= 0
            /\ crop.left + crop.width <= crop.fullWidth
            /\ crop.top + crop.height <= crop.fullHeight
            /\ Centered(crop.left, crop.width, crop.fullWidth)
            /\ Centered(crop.top, crop.height, crop.fullHeight)

C15_Witness ==
    /\ ev.crop # <<>>
    /\ ev.crop[1].cropped
    /\ ev.crop[1].left > 0
    /\ (ev.crop[1].fullWidth - ev.crop[1].width) % 2 = 1
    /\ Len(written) >= 2
    /\ written[Len(written)].step > 0

\* C16: the source image of the first iteration is the input image; the
\* source of every later iteration is the file of the last frame of the
\* iteration before (its final zoom step), which is written by then.
C16_NextSourceIsLastFrame ==
    /\ \A i \in 1..Len(written) :
           written[i].step = 0 =>
               IF i = 1 THEN written[i].source = InputImagePath
               ELSE /\ written[i].source = written[i - 1].name
                    /\ written[i].source # InputImagePath
                    /\ written[i - 1].step = options.zoomSteps
                    /\ written[i - 1].frame % (options.zoomSteps + 1) = 0
    /\ pc \in {"index", "assign", "composite"} =>
           currentInputPath =
               (IF Len(written) = 0 THEN InputImagePath
                ELSE written[Len(written)].name)

C16_Witness ==
    /\ options.zoomSteps = 1
    /\ Len(written) = 3
    /\ written[3].step = 0
    /\ written[3].source = OutputName(2)

\* C17: every zoom step renders from the tile pattern (rows, columns and
\* per-cell paths) that the assignment of the base mosaic of its own
\* iteration computed.
C17_ZoomReusesIterationPattern ==
    /\ pc = "zoom" =>
           /\ mosaicResult.tilePattern = tileImages
           /\ mosaicResult.mosaicWidth = options.mosaicWidth
           /\ mosaicResult.mosaicHeight = options.mosaicHeight
    /\ (ev.op = "cell" /\ ev.phase = "zoom") =>
           ev.path = tileImages[((ev.cell - 1) \div options.mosaicWidth) + 1]
                               [((ev.cell - 1) % options.mosaicWidth) + 1]

C17_Witness ==
    /\ ev.op = "cell"
    /\ ev.phase = "zoom"
    /\ Len(written) >= 3
    /\ options.zoomSteps = 1
    /\ tileImages # <<<<<<"a">>>>>>

\* C18: when a frame raises an error the sequence is over: the error reaches
\* the caller (the run is failed), the frames written are those before the
\* failed frame, and no step follows - no later frame, no retry.
C18_FrameErrorAborts ==
    /\ [](ev.threw =>
            /\ pc = "failed"
            /\ Len(written) = globalFrameNumber - 1
            /\ \A i \in 1..Len(written) : written[i].frame < globalFrameNumber)
    /\ [][pc # "failed"]_vars

C18_Witness ==
    /\ pc = "failed"
    /\ ev.threw
    /\ ev.op = "cell"
    /\ Len(written) >= 2

\* C19: one getAverageColor call makes at most 3 decode attempts; an attempt
\* after the first follows a failure with a retryable message and the wait,
\* no attempt follows a success or another failure; the call returns the
\* color of the first success, and null (it does not raise) when its last
\* attempt failed.
C19_RetryPolicy ==
    /\ Len(attempts) <= 3
    /\ pc # "failed"
    /\ \A i \in 1..Len(attempts) :
           /\ attempts[i].message = decodeOutcomes[i]
           /\ attempts[i].waited = (i > 1)
           /\ i > 1 => attempts[i - 1].message \in RetryableMessages
    /\ (pc = "returned" /\ attempts # <<>>) =>
           LET last == attempts[Len(attempts)].message
           IN  /\ last = "ok" => returned = <<AverageColor(RetryPath)>>
               /\ last # "ok" =>
                      /\ returned = <<>>
                      /\ last \notin RetryableMessages \/ Len(attempts) = 3

C19_Witness ==
    /\ pc = "returned"
    /\ Len(attempts) = 3
    /\ \A i \in 1..3 : attempts[i].message \in RetryableMessages
    /\ decodeOutcomes[4] = "ok"
    /\ returned = <<>>

\* The paths of the records of the cache file.
CachedPaths ==
    The({{load.tiles[i].path : i \in 1..Len(load.tiles)} :
         load \in {loadTileCacheFromCSV(cacheFile)}})

\* C20: a path getAverageColor gave up on is in the corrupted set, every
\* later getAverageColor call for it returns null (even if the file decodes
\* by then), and it is neither in the corpus nor in the cache file, for the
\* rest of the run (the file is read back after every step that analyses
\* tiles or saves the cache; no other step touches either).
C20_FailedPathStaysOut ==
    failedColor # {} =>
        /\ failedColor \subseteq corruptedTiles
        /\ \A f \in failedColor :
               /\ getAverageColor(f, [tileCache |-> tileCache,
                                      corruptedTiles |-> corruptedTiles],
                                  {}).result = <<>>
               /\ \A i \in 1..Len(tiles) : tiles[i].path # f
        /\ ev.op = "index" => failedColor \cap CachedPaths = {}

C20_Witness ==
    /\ failedColor # {}
    /\ ev.op = "index"
    /\ ev.cacheHit
    /\ Len(tiles) >= 1
    /\ Len(written) >= 1


\* The distance of candidate i of the followed findBestTile call.
MatchDistance(i) == colorDistanceSq(inputData[1], tiles[i])

\* C21: findBestTile returns a candidate outside the corrupted set whose
\* squared RGB distance to the target is minimal among those candidates, the
\* first of them in candidate order; it throws only when every candidate is
\* corrupted; black and white are 195075 apart, equal colors 0; of the grays
\* 10, 200, 100 it returns gray 100 for the target gray 90.
C21_FindBestTileNearestFirst ==
    /\ colorDistanceSq(Color(0), Color(255)) = 195075
    /\ \A c \in MatchColors : colorDistanceSq(c, c) = 0
    /\ pc = "matched" =>
           /\ (returned = <<>>) = (UsableTiles = {})
           /\ returned # <<>> =>
                  /\ returned[1] \in UsableTiles
                  /\ \A j \in UsableTiles :
                         /\ MatchDistance(returned[1]) <= MatchDistance(j)
                         /\ MatchDistance(j) = MatchDistance(returned[1])
                                => returned[1] <= j
           /\ (/\ Len(tiles) = 3
               /\ inputData[1] = Color(90)
               /\ corruptedTiles = {}
               /\ [i \in 1..3 |-> tiles[i].r] = <<10, 200, 100>>)
                  => returned = <<3>>

\* A call where the nearest candidate is corrupted and two others tie: the
\* earlier of the two is returned.
C21_Witness ==
    /\ pc = "matched"
    /\ Len(tiles) = 3
    /\ inputData[1] = Color(90)
    /\ corruptedTiles = {tiles[1].path}
    /\ MatchDistance(1) < MatchDistance(2)
    /\ MatchDistance(2) = MatchDistance(3)
    /\ tiles[2] # tiles[3]
    /\ returned = <<2>>

\* n is num / den rounded to the nearest integer, halves upward.
IsRounded(n, num, den) ==
    2 * n * den <= 2 * num + den /\ 2 * num + den < 2 * (n + 1) * den

C23_NoUsableTileFails ==
    /\ (ev.op = "index" /\ ~ev.cacheHit /\ dirFiles = <<>>)
           => ev.threw /\ pc = "failed"
    /\ (ev.op = "index" /\ tiles = <<>>) => ev.threw /\ pc = "failed"
    /\ (ev.op = "index" /\ UsableTiles = {}) => pc \in {"failed", "assign"}
    /\ (ev.op = "assign" /\ UsableTiles = {}) => ev.threw /\ pc = "failed"
    /\ (ev.op = "cell" /\ ev.phase = "base" /\ UsableTiles = {})
           => ev.threw /\ pc = "failed"
    /\ pc = "failed" =>
           \A i \in 1..Len(written) : written[i].frame # globalFrameNumber

\* The call failed when the cells were assigned: the corpus is not empty but
\* all of it is corrupted, and nothing was written.
C23_Witness ==
    /\ pc = "failed"
    /\ ev.op = "assign"
    /\ ev.threw
    /\ tiles # <<>>
    /\ UsableTiles = {}
    /\ written = <<>>

\* C24: an I/O failure while the cache file is written is fatal: the
\* generateMosaic call ends with an error and the request is aborted.
C24_CacheWriteFailureIsFatal ==
    (ev.op = "index" /\ ev.writeFailed) => ev.threw /\ pc = "failed"

\* A line with all four comma-separated fields path, r, g, b: at least four
\* fields, the first four not empty.
HasFourFields(line) ==
    LET fields == Split(line, ",")
    IN  Len(fields) >= 4 /\ \A i \in 1..4 : fields[i] # <<>>

\* The records are, in order, one for each line after the first that has
\* all four fields: its path, and its r, g, b as parseInt reads them.
RecordsOfLaterLines(records, lines) ==
    LET kept == SelectSeq(Tail(lines), HasFourFields)
    IN  /\ Len(records) = Len(kept)
        /\ \A k \in 1..Len(kept) :
               LET fields == Split(kept[k], ",")
               IN  records[k] =
                       TileRecord(Trim(fields[1]), ParseInt(Trim(fields[2])),
                                  ParseInt(Trim(fields[3])),
                                  ParseInt(Trim(fields[4])))

\* C25 as stated: loadTileCacheFromCSV skips the first line of the file
\* whatever its content and returns, in file order, exactly one record for
\* each later line that has all four fields; the other lines are dropped
\* without an error.
C25_SkipsFirstLineOfFile ==
    pc = "csvDone" =>
        /\ ev.cacheHit
        /\ RecordsOfLaterLines(loaded, Split(cacheFile.text, "\n"))

\* C25, amended: the lines are those of the file's text without its leading
\* and trailing whitespace (csvData.trim()); the first of them is skipped
\* whatever its content, and the records are, in order, one for each later
\* line that has all four fields; the other lines are dropped without an
\* error.
C25_SkipsFirstLineOfTrimmedText ==
    pc = "csvDone" =>
        /\ ev.cacheHit
        /\ RecordsOfLaterLines(loaded, Split(Trim(cacheFile.text), "\n"))

\* A file whose first line is a record and whose second line has an empty
\* field: the third line alone is returned.
C25_Witness ==
    /\ pc = "csvDone"
    /\ Split(cacheFile.text, "\n") =
           <<<<"a", ",", "1", ",", "2", ",", "3">>,
             <<"a", ",", ",", "2", ",", "3">>,
             <<"b", ",", "4", ",", "5", ",", "6">>>>
    /\ loaded = <<TileRecord(<<"b">>, 4, 5, 6)>>

\* The tile records of the corpus, of the last cache load and of tileCache.
KnownRecords ==
    {tiles[i] : i \in 1..Len(tiles)} \cup {loaded[i] : i \in 1..Len(loaded)}
        \cup {tileCache[p] : p \in DOMAIN tileCache}

\* C26: every tile record of the corpus or of tileCache, computed by
\* getAverageColor or loaded from the cache file, has integer channels r, g
\* and b between 0 and 255.
C26_ChannelsInRange ==
    \A tile \in KnownRecords :
        tile.r \in 0..255 /\ tile.g \in 0..255 /\ tile.b \in 0..255

\* C27: the composited buffer of a rows x cols assignment at tile size s is
\* cols*s wide and rows*s tall with 3 bytes per pixel, every byte of a row
\* is written exactly once, and the pixel at (X, Y) is pixel (X mod s,
\* Y mod s) of the resized tile of cell (X div s, Y div s), channel for
\* channel.
C27_CompositedPixels ==
    pc = "composited" =>
        LET s == options.tileSize
            cols == options.mosaicWidth
            rows == options.mosaicHeight
            file == written[1]
        IN  /\ file.width = cols * s
            /\ file.height = rows * s
            /\ DOMAIN file.data = 0..(cols * s * rows * s * 3 - 1)
            /\ \A o \in 0..(cols * s * s * 3 - 1) :
                   Cardinality({w \in CopySteps(cols, s) :
                                   DstOffset(w, cols * s, s) = o}) = 1
            /\ \A X \in 0..(cols * s - 1), Y \in 0..(rows * s - 1),
                  c \in 0..2 :
                   file.data[(Y * file.width + X) * 3 + c] =
                       TilePixel(tileImages[(Y \div s) + 1][(X \div s) + 1],
                                 s, X % s, Y % s, c)

\* The path assigned to the cell numbered i in row-major order.
CellPath(i) ==
    tileImages[((i - 1) \div options.mosaicWidth) + 1]
              [((i - 1) % options.mosaicWidth) + 1]

\* The tile of path p is at least as near to the target as every tile of
\* the corpus whose path is in `among`.
NearestAmong(p, targetColor, among) ==
    \E i \in 1..Len(tiles) :
        /\ tiles[i].path = p
        /\ p \in among
        /\ \A j \in 1..Len(tiles) :
               tiles[j].path \in among =>
                   colorDistanceSq(targetColor, tiles[i])
                       <= colorDistanceSq(targetColor, tiles[j])

\* C28: with allowReuse = false and a corpus of K distinct tiles none of
\* which is corrupted, the first min(K, cells) cells in row-major order get
\* pairwise distinct tiles, each the nearest among the tiles not used by an
\* earlier cell; every cell after the K-th is matched against the whole
\* corpus.
C28_NoReuseAssignment ==
    (/\ ev.op = "assign"
     /\ ~options.allowReuse
     /\ UsableTiles = 1..Len(tiles)
     /\ \A i, j \in 1..Len(tiles) : tiles[i].path = tiles[j].path => i = j)
        => LET K == Len(tiles)
               cells == options.mosaicWidth * options.mosaicHeight
               all == {tiles[i].path : i \in 1..K}
           IN  /\ ~ev.threw
               /\ \A i \in 1..cells :
                      IF i <= K
                      THEN /\ \A j \in 1..(i - 1) : CellPath(j) # CellPath(i)
                           /\ NearestAmong(CellPath(i), inputData[i],
                                  all \ {CellPath(j) : j \in 1..(i - 1)})
                      ELSE NearestAmong(CellPath(i), inputData[i], all)

\* Two cells over a corpus of one tile: the second cell gets the tile of
\* the first again.
C28_Witness ==
    /\ ev.op = "assign"
    /\ ~options.allowReuse
    /\ ~ev.threw
    /\ UsableTiles = 1..Len(tiles)
    /\ options.mosaicWidth * options.mosaicHeight = 2
    /\ Len(tiles) = 1
    /\ CellPath(1) = CellPath(2)

\* C29: for positive output sizes, tile size, explicit tile counts and input
\* dimensions, the grid width and the grid height generateMosaic computes
\* are both at least 1 when the source image is resized to the grid.
C29_GridAtLeastOne ==
    pc = "planned" =>
        mosaicResult.mosaicWidth >= 1 /\ mosaicResult.mosaicHeight >= 1

\* C30: a generateMosaic call that found no cache and fails because none of
\* the tile files could be processed leaves the cache file such that a later
\* run (a new generator) over the same directory, its tiles decodable by
\* then, still scans the directory and does not fail.
C30_FailedIndexLeavesNoCache ==
    (ev.op = "index" /\ ev.threw /\ ~ev.cacheHit /\ dirFiles # <<>>)
        => \E later \in {IndexTiles([tileCache |-> <<>>, corruptedTiles |-> {}],
                                    cacheFile, dirFiles, {})} :
               later.scanned /\ ~later.threw
====
